---- MODULE Spec2Model ----
(***************************************************************************)
(* AbstractMathItem (mathjax3-ts/core/MathItem.ts): the life cycle of one  *)
(* math expression.  The item's fields are the state; every public method  *)
(* is one action.  The input jax (parser) and the output jax (renderer)    *)
(* are external: each call of them returns or throws, nondeterministically.*)
(* History variables (op, pre, hist) record the last call, the fields      *)
(* before it, and the calls made so far.                                   *)
(***************************************************************************)
EXTENDS Integers, Sequences, FiniteSets, TLC

VARIABLES _state, root, typesetRoot, metrics, bbox, inputData, outputData,
          display, op, pre, hist

vars == <<_state, root, typesetRoot, metrics, bbox, inputData, outputData,
          display, op, pre, hist>>

(***************************************************************************)
(* Values                                                                  *)
(***************************************************************************)
UNPROCESSED == 0
COMPILED == 1
TYPESET == 2
INSERTED == 3
StateValues == {UNPROCESSED, COMPILED, TYPESET, INSERTED}

Null == "null"
\* the object literal {}
EmptyObj == [k \in {} |-> 0]
\* what the jax store in the item
SomeInputData == [label |-> 1]
SomeOutputData == [cache |-> 1]
SomeBBox == [w |-> 1]
\* internal trees the input jax can return, handles the output jax can return
Trees == {"mml1", "mml2"}
Handles == {"dom1", "dom2"}
\* display: true, false or null
DisplayValues == {"true", "false", Null}
NoError == "none"
ParseErrors == {"ParseError"}
RenderErrors == {"RenderError"}
Void == <<>>

\* the item as one value
Item ==
  [_state |-> _state, root |-> root, typesetRoot |-> typesetRoot,
   metrics |-> metrics, bbox |-> bbox, inputData |-> inputData,
   outputData |-> outputData, display |-> display]

\* the result of a call: the item after it, the calls it made in order,
\* the value it returned (<<>> for none) and the error it threw
Result(it, events, ret, error) ==
  [it |-> it, events |-> events, ret |-> ret, error |-> error]

\* one call made by a method, with the item as it was when the call was made
Event(name, restore, it) == [ev |-> name, restore |-> restore, it |-> it]

(***************************************************************************)
(* protoItem(open, math, close, n, start, end, display = null)             *)
(***************************************************************************)
\* largest index of a string and largest offset in a string that are tried
MaxIndex == 1
MaxOffset == 2

\* delimiters and expressions that are tried
Delims == {"", "$"}
MathStrings == {"x", "x^2"}

\* protoItem taking the start position from the index of the string
protoItemIndexAsStart(open, math, close, n, start, end, displayArg) ==
  [open |-> open, math |-> math, close |-> close, n |-> n,
   start |-> [n |-> n], end |-> [n |-> end], display |-> displayArg]

protoItem(open, math, close, n, start, end, displayArg) ==
  [open |-> open, math |-> math, close |-> close, n |-> n,
   start |-> [n |-> start], end |-> [n |-> end], display |-> displayArg]

\* the parameter display: null when the seventh argument is not given
DisplayParam(args) == IF Len(args) >= 7 THEN args[7] ELSE Null

(***************************************************************************)
(* Methods with an empty body in the abstract class: they return without   *)
(* an error and leave the item as it is                                    *)
(***************************************************************************)
addEventHandlers(it) == Result(it, <<>>, Void, NoError)

\* updateDocument recording the insertion in the state
updateDocumentInserting(it) ==
  Result([it EXCEPT !._state = INSERTED], <<>>, Void, NoError)

\* updateDocument refusing an item that is not typeset
updateDocumentChecked(it) ==
  IF it._state < TYPESET
  THEN Result(it, <<>>, Void, "InvalidStateError")
  ELSE Result(it, <<>>, Void, NoError)

updateDocument(it) == Result(it, <<>>, Void, NoError)

removeFromDocument(it, restore) == it

(***************************************************************************)
(* setMetrics                                                              *)
(***************************************************************************)
setMetrics(it, em, ex, cwidth, lwidth, scale) ==
  [it EXCEPT !.metrics = [em |-> em, ex |-> ex, containerWidth |-> cwidth,
                          lineWidth |-> lwidth, scale |-> scale]]

(***************************************************************************)
(* state(state = null, restore = false); args are the arguments given      *)
(***************************************************************************)
\* the default of the parameter state written as 0
StateParamZero(args) == IF Len(args) >= 1 THEN <<args[1]>> ELSE <<UNPROCESSED>>

\* the parameter state: <<>> is null, the default
StateParam(args) == IF Len(args) >= 1 THEN <<args[1]>> ELSE <<>>

StateGiven(args) == StateParam(args) # <<>>

\* the parameter restore not passed on
RestoreArgDropped(args) == FALSE

RestoreArg(args) == IF Len(args) >= 2 THEN args[2] ELSE FALSE

\* the INSERTED guard with <= for <
InsertedGuardInclusive(it, state) == state <= INSERTED /\ it._state >= INSERTED

InsertedGuard(it, state) == state < INSERTED /\ it._state >= INSERTED

\* the TYPESET guard with <= for <
TypesetGuardInclusive(it, state) == state <= TYPESET /\ it._state >= TYPESET

TypesetGuard(it, state) == state < TYPESET /\ it._state >= TYPESET

\* the guard of the TYPESET block copied to the COMPILED block
CompiledGuardCopied(it, state) == state < TYPESET /\ it._state >= TYPESET

CompiledGuard(it, state) == state < COMPILED /\ it._state >= COMPILED

StateRemove(r, state, restore) ==
  IF InsertedGuard(r.it, state)
  THEN Result(removeFromDocument(r.it, restore),
              Append(r.events, Event("removeFromDocument", restore, r.it)),
              r.ret, r.error)
  ELSE r

\* the TYPESET block also dropping the metrics
StateClearOutputAndMetrics(r, state) ==
  IF TypesetGuard(r.it, state)
  THEN Result([r.it EXCEPT !.bbox = EmptyObj, !.outputData = EmptyObj,
                           !.metrics = EmptyObj],
              Append(r.events, Event("clearOutput", FALSE, r.it)),
              r.ret, r.error)
  ELSE r

StateClearOutput(r, state) ==
  IF TypesetGuard(r.it, state)
  THEN Result([r.it EXCEPT !.bbox = EmptyObj, !.outputData = EmptyObj],
              Append(r.events, Event("clearOutput", FALSE, r.it)),
              r.ret, r.error)
  ELSE r

\* the COMPILED block also dropping the compiled tree
StateClearInputAndRoot(r, state) ==
  IF CompiledGuard(r.it, state)
  THEN Result([r.it EXCEPT !.inputData = EmptyObj, !.root = Null],
              Append(r.events, Event("clearInput", FALSE, r.it)),
              r.ret, r.error)
  ELSE r

StateClearInput(r, state) ==
  IF CompiledGuard(r.it, state)
  THEN Result([r.it EXCEPT !.inputData = EmptyObj],
              Append(r.events, Event("clearInput", FALSE, r.it)),
              r.ret, r.error)
  ELSE r

StateAssign(r, state) ==
  Result([r.it EXCEPT !._state = state],
         Append(r.events, Event("setState", FALSE, r.it)), r.ret, r.error)

StateReturn(r) == Result(r.it, r.events, <<r.it._state>>, r.error)

\* state() storing the new state before it tests the guards
StateAssignFirst(it, args) ==
  LET r0 == Result(it, <<>>, Void, NoError)
      state == StateParam(args)
  IN  IF state # <<>>
      THEN StateReturn(StateClearInput(StateClearOutput(
             StateRemove(StateAssign(r0, state[1]), state[1], RestoreArg(args)),
             state[1]), state[1]))
      ELSE StateReturn(r0)

State(it, args) ==
  LET r0 == Result(it, <<>>, Void, NoError)
      state == StateParam(args)
  IN  IF state # <<>>
      THEN StateReturn(StateAssign(StateClearInput(StateClearOutput(
             StateRemove(r0, state[1], RestoreArg(args)), state[1]), state[1]),
             state[1]))
      ELSE StateReturn(r0)

\* a call of state() made by another method: its calls are added to r's
Then(r, args) ==
  LET s == State(r.it, args)
  IN  Result(s.it, r.events \o s.events, r.ret, r.error)

(***************************************************************************)
(* compile: the input jax returns a tree or throws; it is handed the item  *)
(* and may store data in inputData before it does either                   *)
(***************************************************************************)
ParserOutcomes(it) ==
  {[ok |-> TRUE, tree |-> t, error |-> NoError, inputData |-> d] :
      t \in Trees, d \in {it.inputData, SomeInputData}}
  \cup
  {[ok |-> FALSE, tree |-> Null, error |-> e, inputData |-> d] :
      e \in ParseErrors, d \in {it.inputData, SomeInputData}}

\* compile's guard testing root in place of the state
CompileNeededByRoot(it) == it.root = Null

\* compile's guard also skipping an item that still has a root
CompileNeededUnlessRoot(it) ==
  State(it, <<>>).ret[1] < COMPILED /\ it.root = Null

\* compile's guard with <= for <
CompileNeededOffByOne(it) == State(it, <<>>).ret[1] <= COMPILED

CompileNeeded(it) == State(it, <<>>).ret[1] < COMPILED

\* compile passing the wrong member of STATE
CompileTargetTypeset == TYPESET

\* the state compile passes to this.state()
CompileTarget == COMPILED

\* compile storing the new state before it calls the input jax
CompileStateFirst(it, out) ==
  IF CompileNeeded(it)
  THEN LET first == Then(Result(it, <<>>, Void, NoError), <<CompileTarget>>)
           called == [first.it EXCEPT !.inputData = out.inputData]
           ev == Append(first.events, Event("inputJax.compile", FALSE, first.it))
       IN  IF out.ok
           THEN Result([called EXCEPT !.root = out.tree],
                       Append(ev, Event(out.tree, FALSE, called)), Void, NoError)
           ELSE Result(called, Append(ev, Event(out.error, FALSE, called)),
                       Void, out.error)
  ELSE Result(it, <<>>, Void, NoError)

\* the outcome of a call of the jax is recorded after the call, under the
\* name of the value returned or of the error thrown
Compile(it, out) ==
  IF CompileNeeded(it)
  THEN LET called == [it EXCEPT !.inputData = out.inputData]
           ev == <<Event("inputJax.compile", FALSE, it)>>
       IN  IF out.ok
           THEN Then(Result([called EXCEPT !.root = out.tree],
                            Append(ev, Event(out.tree, FALSE, called)), Void, NoError),
                     <<CompileTarget>>)
           ELSE Result(called, Append(ev, Event(out.error, FALSE, called)),
                       Void, out.error)
  ELSE Result(it, <<>>, Void, NoError)

(***************************************************************************)
(* typeset: the output jax's escaped or typeset method returns a handle or *)
(* throws; it may store data in bbox and outputData before it does either  *)
(***************************************************************************)
RendererOutcomes(it) ==
  {[ok |-> TRUE, handle |-> h, error |-> NoError, bbox |-> b, outputData |-> d] :
      h \in Handles, b \in {it.bbox, SomeBBox}, d \in {it.outputData, SomeOutputData}}
  \cup
  {[ok |-> FALSE, handle |-> Null, error |-> e, bbox |-> b, outputData |-> d] :
      e \in RenderErrors, b \in {it.bbox, SomeBBox}, d \in {it.outputData, SomeOutputData}}

\* typeset's guard with <= for <
TypesetNeededOffByOne(it) == State(it, <<>>).ret[1] <= TYPESET

TypesetNeeded(it) == State(it, <<>>).ret[1] < TYPESET

\* the entry point chosen by the truth of display
RendererMethodFalsy(it) == IF it.display = "true" THEN "typeset" ELSE "escaped"

RendererMethod(it) == IF it.display = Null THEN "escaped" ELSE "typeset"

\* the state typeset passes to this.state()
TypesetTarget == TYPESET

\* typeset storing the handle in the field of the compiled tree
TypesetStoringRoot(it, out) ==
  IF TypesetNeeded(it)
  THEN LET called == [it EXCEPT !.bbox = out.bbox, !.outputData = out.outputData]
           ev == <<Event("outputJax." \o RendererMethod(it), FALSE, it)>>
       IN  IF out.ok
           THEN Then(Result([called EXCEPT !.root = out.handle],
                            Append(ev, Event(out.handle, FALSE, called)), Void, NoError),
                     <<TypesetTarget>>)
           ELSE Result(called, Append(ev, Event(out.error, FALSE, called)),
                       Void, out.error)
  ELSE Result(it, <<>>, Void, NoError)

\* typeset storing the new state before it calls the output jax
TypesetStateFirst(it, out) ==
  IF TypesetNeeded(it)
  THEN LET first == Then(Result(it, <<>>, Void, NoError), <<TypesetTarget>>)
           called == [first.it EXCEPT !.bbox = out.bbox, !.outputData = out.outputData]
           ev == Append(first.events,
                        Event("outputJax." \o RendererMethod(it), FALSE, first.it))
       IN  IF out.ok
           THEN Result([called EXCEPT !.typesetRoot = out.handle],
                       Append(ev, Event(out.handle, FALSE, called)), Void, NoError)
           ELSE Result(called, Append(ev, Event(out.error, FALSE, called)),
                       Void, out.error)
  ELSE Result(it, <<>>, Void, NoError)

Typeset(it, out) ==
  IF TypesetNeeded(it)
  THEN LET called == [it EXCEPT !.bbox = out.bbox, !.outputData = out.outputData]
           ev == <<Event("outputJax." \o RendererMethod(it), FALSE, it)>>
       IN  IF out.ok
           THEN Then(Result([called EXCEPT !.typesetRoot = out.handle],
                            Append(ev, Event(out.handle, FALSE, called)), Void, NoError),
                     <<TypesetTarget>>)
           ELSE Result(called, Append(ev, Event(out.error, FALSE, called)),
                       Void, out.error)
  ELSE Result(it, <<>>, Void, NoError)

(***************************************************************************)
(* History                                                                 *)
(***************************************************************************)
\* how many of the calls in events are calls of one of names
RECURSIVE CountEvents(_, _)
CountEvents(events, names) ==
  IF events = <<>> THEN 0
  ELSE (IF Head(events).ev \in names THEN 1 ELSE 0) + CountEvents(Tail(events), names)

ParserNames == {"inputJax.compile"}
RendererNames == {"outputJax.escaped", "outputJax.typeset"}

\* the calls of a fresh item's pipeline, in order
Pipeline == <<"compile", "typeset", "updateDocument">>
OffPipeline == <<"other">>

InitHist(track) ==
  [track |-> track,
   compileCalled |-> FALSE, parserCalled |-> FALSE, parserReturned |-> FALSE,
   typesetCalled |-> FALSE, rendererCalled |-> FALSE, rendererReturned |-> FALSE,
   everCompiled |-> FALSE, everTypeset |-> FALSE, pipeline |-> <<>>]

\* compileCalled, parserCalled, parserReturned: compile was called, the input
\* jax was called, the input jax has returned a tree, since the last state(s)
\* call with s below COMPILED; typesetCalled, rendererCalled and
\* rendererReturned likewise for typeset, the output jax and TYPESET.  These
\* six are recorded only when track is set (SpecSeq).
NextHist(h, name, args, r) ==
  LET resetC == ~h.track \/ (name = "state" /\ Len(args) >= 1 /\ args[1] < COMPILED)
      resetT == ~h.track \/ (name = "state" /\ Len(args) >= 1 /\ args[1] < TYPESET)
      p == CountEvents(r.events, ParserNames) > 0
      q == CountEvents(r.events, RendererNames) > 0
      okC == name = "compile" /\ p /\ r.error = NoError
      okT == name = "typeset" /\ q /\ r.error = NoError
      next == Len(h.pipeline) + 1
  IN  [track |-> h.track,
       compileCalled |-> ~resetC /\ (h.compileCalled \/ name = "compile"),
       typesetCalled |-> ~resetT /\ (h.typesetCalled \/ name = "typeset"),
       parserCalled |-> ~resetC /\ (h.parserCalled \/ p),
       parserReturned |-> ~resetC /\ (h.parserReturned \/ okC),
       rendererCalled |-> ~resetT /\ (h.rendererCalled \/ q),
       rendererReturned |-> ~resetT /\ (h.rendererReturned \/ okT),
       everCompiled |-> h.everCompiled \/ okC,
       everTypeset |-> h.everTypeset \/ okT,
       pipeline |-> IF /\ h.pipeline # OffPipeline
                       /\ next <= Len(Pipeline)
                       /\ name = Pipeline[next]
                       /\ r.error = NoError
                    THEN Append(h.pipeline, name)
                    ELSE OffPipeline]

(***************************************************************************)
(* Init: the item after the constructor                                    *)
(***************************************************************************)
Init ==
  /\ _state = UNPROCESSED
  /\ root = Null
  /\ typesetRoot = Null
  /\ metrics = EmptyObj
  /\ bbox = EmptyObj
  /\ inputData = EmptyObj
  /\ outputData = EmptyObj
  /\ display \in DisplayValues
  /\ op = [name |-> "new", args |-> <<>>, ret |-> Void, error |-> NoError,
           events |-> <<>>]
  /\ pre = Item
  /\ hist = InitHist(FALSE)

\* the same item, with the history of compile and typeset calls recorded
InitSeq ==
  /\ _state = UNPROCESSED
  /\ root = Null
  /\ typesetRoot = Null
  /\ metrics = EmptyObj
  /\ bbox = EmptyObj
  /\ inputData = EmptyObj
  /\ outputData = EmptyObj
  /\ display \in DisplayValues
  /\ op = [name |-> "new", args |-> <<>>, ret |-> Void, error |-> NoError,
           events |-> <<>>]
  /\ pre = Item
  /\ hist = InitHist(TRUE)

(***************************************************************************)
(* Actions: one per method call                                            *)
(***************************************************************************)
Call(name, args, r) ==
  /\ _state' = r.it._state
  /\ root' = r.it.root
  /\ typesetRoot' = r.it.typesetRoot
  /\ metrics' = r.it.metrics
  /\ bbox' = r.it.bbox
  /\ inputData' = r.it.inputData
  /\ outputData' = r.it.outputData
  /\ display' = r.it.display
  /\ op' = [name |-> name, args |-> args, ret |-> r.ret, error |-> r.error,
            events |-> r.events]
  /\ pre' = Item
  /\ hist' = NextHist(hist, name, args, r)

CompileCall ==
  \E out \in ParserOutcomes(Item) : Call("compile", <<>>, Compile(Item, out))

TypesetCall ==
  \E out \in RendererOutcomes(Item) : Call("typeset", <<>>, Typeset(Item, out))

AddEventHandlersCall ==
  Call("addEventHandlers", <<>>, addEventHandlers(Item))

UpdateDocumentCall ==
  Call("updateDocument", <<>>, updateDocument(Item))

RemoveFromDocumentCall ==
  \E restore \in BOOLEAN :
    Call("removeFromDocument", <<restore>>,
         Result(removeFromDocument(Item, restore), <<>>, Void, NoError))

SetMetricsCall ==
  \E em \in {16} :
    Call("setMetrics", <<em, 8, 800, 600, 1>>,
         Result(setMetrics(Item, em, 8, 800, 600, 1), <<>>, Void, NoError))

StateArgs ==
  {<<>>} \cup {<<s>> : s \in StateValues}
         \cup {<<s, b>> : s \in StateValues, b \in BOOLEAN}

StateCall == \E args \in StateArgs : Call("state", args, State(Item, args))

Next ==
  \/ CompileCall
  \/ TypesetCall
  \/ AddEventHandlersCall
  \/ UpdateDocumentCall
  \/ RemoveFromDocumentCall
  \/ SetMetricsCall
  \/ StateCall

Spec == Init /\ [][Next]_vars

\* protoItem is a function of the module, not a method: it is called with
\* every combination of arguments, with and without display
ProtoItemArgs ==
  {<<o, m, c, n, s, e>> :
      o \in Delims, m \in MathStrings, c \in Delims,
      n \in 0..MaxIndex, s \in 0..MaxOffset, e \in 0..MaxOffset}
  \cup
  {<<o, m, c, n, s, e, d>> :
      o \in Delims, m \in MathStrings, c \in Delims,
      n \in 0..MaxIndex, s \in 0..MaxOffset, e \in 0..MaxOffset,
      d \in DisplayValues}

ProtoItemCall ==
  \E args \in ProtoItemArgs :
    /\ op' = [name |-> "protoItem", args |-> args,
              ret |-> <<protoItem(args[1], args[2], args[3], args[4], args[5],
                                  args[6], DisplayParam(args))>>,
              error |-> NoError, events |-> <<>>]
    /\ UNCHANGED <<_state, root, typesetRoot, metrics, bbox, inputData,
                   outputData, display, pre, hist>>

InitProto == Init /\ display = "true"

SpecProto == InitProto /\ [][ProtoItemCall]_vars

SpecSeq == InitSeq /\ [][Next]_vars

\* state(newState, ...) called with a target that is not above the state
StateDownCall ==
  \E args \in StateArgs :
    /\ Len(args) >= 1
    /\ args[1] <= _state
    /\ Call("state", args, State(Item, args))

\* the calls a driver makes that never raises the state by state()
NextDown ==
  \/ CompileCall
  \/ TypesetCall
  \/ UpdateDocumentCall
  \/ SetMetricsCall
  \/ StateDownCall

SpecDown == Init /\ [][NextDown]_vars

(***************************************************************************)
(* Claims                                                                  *)
(***************************************************************************)
\* the last call was state(s2, ...) made in state s1
StateCalled(s1, s2) ==
  op.name = "state" /\ Len(op.args) >= 1 /\ op.args[1] = s2 /\ pre._state = s1

\* the state that owns each auxiliary container
Owner == [bbox |-> TYPESET, outputData |-> TYPESET, inputData |-> COMPILED]

\* C1: for all states s1 > s2, state(s2) called in state s1 empties exactly
\* the containers owned by the states in (s2, s1] (bbox and outputData by
\* TYPESET, inputData by COMPILED) and leaves every other container, those
\* owned by a state <= s2 among them, with the content it had
C1_CascadingInvalidation ==
  \A s1, s2 \in StateValues :
    (s1 > s2 /\ StateCalled(s1, s2)) =>
      \A c \in DOMAIN Owner :
        IF s2 < Owner[c] /\ Owner[c] <= s1
        THEN Item[c] = EmptyObj
        ELSE Item[c] = pre[c]

\* a rollback from TYPESET to COMPILED of an item whose three containers were
\* filled: bbox and outputData are emptied, inputData is kept
C1_Witness ==
  /\ StateCalled(TYPESET, COMPILED)
  /\ pre.bbox = SomeBBox /\ pre.outputData = SomeOutputData
  /\ pre.inputData = SomeInputData
  /\ bbox = EmptyObj /\ outputData = EmptyObj /\ inputData = SomeInputData

ParserCalls(o) == CountEvents(o.events, ParserNames)
RendererCalls(o) == CountEvents(o.events, RendererNames)
RemoveCalls(o) == CountEvents(o.events, {"removeFromDocument"})

\* C3 as stated: compile in a state >= COMPILED does not call the input jax
\* and changes neither root nor the state; and in a sequence of compile calls
\* with no state(s), s < COMPILED, in between, the input jax is called at most
\* once and root is the same after every call following the first
C3_ParserCalledAtMostOnce ==
  [][op'.name = "compile" =>
       /\ _state >= COMPILED =>
            ParserCalls(op') = 0 /\ root' = root /\ _state' = _state
       /\ hist.parserCalled => ParserCalls(op') = 0
       /\ hist.compileCalled => root' = root]_vars

\* C3, amended: compile in a state >= COMPILED does not call the input jax and
\* changes neither root nor the state; and in a sequence of compile calls with
\* no state(s), s < COMPILED, in between, once the input jax has returned a
\* tree it is not called again and root is the same after every later call
C3_ParserNotCalledAfterReturn ==
  [][op'.name = "compile" =>
       /\ _state >= COMPILED =>
            ParserCalls(op') = 0 /\ root' = root /\ _state' = _state
       /\ hist.parserReturned => ParserCalls(op') = 0 /\ root' = root]_vars

\* a second compile after one that succeeded: no call of the input jax, root kept
C3_Witness ==
  /\ hist.track /\ hist.parserReturned
  /\ op.name = "compile" /\ op.events = <<>>
  /\ pre._state = COMPILED /\ _state = COMPILED
  /\ root \in Trees /\ root = pre.root

\* C4 as stated: typeset in a state >= TYPESET (INSERTED too) does not call
\* the output jax and changes neither typesetRoot nor the state; and in a
\* sequence of typeset calls with no state(s), s < TYPESET, in between, the
\* output jax is called at most once and typesetRoot is the same after every
\* call following the first
C4_RendererCalledAtMostOnce ==
  [][op'.name = "typeset" =>
       /\ _state >= TYPESET =>
            RendererCalls(op') = 0 /\ typesetRoot' = typesetRoot /\ _state' = _state
       /\ hist.rendererCalled => RendererCalls(op') = 0
       /\ hist.typesetCalled => typesetRoot' = typesetRoot]_vars

\* C4, amended: typeset in a state >= TYPESET (INSERTED too) does not call the
\* output jax and changes neither typesetRoot nor the state; and in a sequence
\* of typeset calls with no state(s), s < TYPESET, in between, once the output
\* jax has returned a handle it is not called again and typesetRoot is the same
\* after every later call
C4_RendererNotCalledAfterReturn ==
  [][op'.name = "typeset" =>
       /\ _state >= TYPESET =>
            RendererCalls(op') = 0 /\ typesetRoot' = typesetRoot /\ _state' = _state
       /\ hist.rendererReturned => RendererCalls(op') = 0 /\ typesetRoot' = typesetRoot]_vars

\* typeset called on an item that was typeset and then marked INSERTED: no call
\* of the output jax, typesetRoot and the state kept
C4_Witness ==
  /\ hist.track /\ hist.rendererReturned
  /\ op.name = "typeset" /\ op.events = <<>>
  /\ pre._state = INSERTED /\ _state = INSERTED
  /\ typesetRoot \in Handles /\ typesetRoot = pre.typesetRoot

\* C5: state(...) never changes root or typesetRoot, whatever the current and
\* the target state; a rollback from INSERTED to UNPROCESSED empties bbox,
\* outputData and inputData and leaves root and typesetRoot as they were
\* (non-null if they were)
C5_StateKeepsRoots ==
  /\ op.name = "state" => root = pre.root /\ typesetRoot = pre.typesetRoot
  /\ StateCalled(INSERTED, UNPROCESSED) =>
       /\ bbox = EmptyObj /\ outputData = EmptyObj /\ inputData = EmptyObj
       /\ pre.root # Null => root # Null
       /\ pre.typesetRoot # Null => typesetRoot # Null

\* a compiled, typeset and inserted item with filled containers rolled back to
\* UNPROCESSED
C5_Witness ==
  /\ StateCalled(INSERTED, UNPROCESSED)
  /\ pre.bbox = SomeBBox /\ pre.outputData = SomeOutputData
  /\ pre.inputData = SomeInputData
  /\ bbox = EmptyObj /\ outputData = EmptyObj /\ inputData = EmptyObj
  /\ root \in Trees /\ typesetRoot \in Handles
  /\ _state = UNPROCESSED

\* the error thrown inside the call o by the jax: the name of its last event
ThrownIn(o) == o.events[Len(o.events)].ev

\* C6: when the input jax throws in compile, compile throws the same error,
\* the state is unchanged and below COMPILED and root is unchanged (null if no
\* compile succeeded before); when the output jax throws in typeset, typeset
\* throws the same error, the state is unchanged and below TYPESET and
\* typesetRoot is unchanged
C6_FailureDoesNotAdvance ==
  /\ (op.name = "compile" /\ CountEvents(op.events, ParseErrors) > 0) =>
       /\ op.error = ThrownIn(op)
       /\ _state = pre._state /\ _state < COMPILED
       /\ root = pre.root
       /\ ~hist.everCompiled => root = Null
  /\ (op.name = "typeset" /\ CountEvents(op.events, RenderErrors) > 0) =>
       /\ op.error = ThrownIn(op)
       /\ _state = pre._state /\ _state < TYPESET
       /\ typesetRoot = pre.typesetRoot

\* the first compile of an item failed: the error reached the caller, the
\* state is still UNPROCESSED and root still null
C6_Witness ==
  /\ op.name = "compile" /\ ParserCalls(op) = 1
  /\ op.error \in ParseErrors
  /\ ~hist.everCompiled
  /\ _state = UNPROCESSED /\ root = Null

C8_UpdateDocumentRefuses ==
  (op.name = "updateDocument" /\ pre._state < TYPESET) =>
    op.error = "InvalidStateError" /\ Item = pre

\* C8, amended: updateDocument called in a state below TYPESET throws nothing:
\* it returns and leaves the state and the fields as they were
C8_UpdateDocumentSilent ==
  (op.name = "updateDocument" /\ pre._state < TYPESET) =>
    op.error = NoError /\ Item = pre

\* updateDocument called on an item that was never typeset returned normally
C8_Witness ==
  /\ op.name = "updateDocument" /\ op.error = NoError
  /\ pre._state = UNPROCESSED /\ typesetRoot = Null
  /\ Item = pre

\* C9 as stated: after every call of removeFromDocument, made directly or by
\* state(), the state is below INSERTED
C9_RemoveLeavesBelowInserted ==
  (op.name = "removeFromDocument" \/ RemoveCalls(op) > 0) => _state < INSERTED

\* C9, amended: after a call of state() that called removeFromDocument the
\* state is below INSERTED; a direct call of removeFromDocument leaves the
\* state and the fields as they were
C9_RemoveByStateLeavesBelowInserted ==
  /\ (op.name = "state" /\ RemoveCalls(op) > 0) => _state < INSERTED
  /\ op.name = "removeFromDocument" => op.error = NoError /\ Item = pre

\* removeFromDocument called directly on an inserted item: still INSERTED
C9_Witness ==
  /\ op.name = "removeFromDocument"
  /\ pre._state = INSERTED
  /\ _state = INSERTED

\* C10: state() with no argument returns the current state and changes
\* nothing: the state, root, typesetRoot, bbox, inputData, outputData and
\* metrics are as before and removeFromDocument is not called
C10_StateReadIsPure ==
  (op.name = "state" /\ op.args = <<>>) =>
    /\ op.ret = <<pre._state>>
    /\ op.error = NoError
    /\ op.events = <<>>
    /\ Item = pre

\* state() read on an inserted item with filled containers
C10_Witness ==
  /\ op.name = "state" /\ op.args = <<>>
  /\ op.ret = <<INSERTED>> /\ _state = INSERTED
  /\ bbox = SomeBBox /\ outputData = SomeOutputData /\ inputData = SomeInputData
  /\ metrics # EmptyObj

\* C11: state(newState) with newState >= the current state calls no
\* removeFromDocument and leaves bbox, outputData and inputData as they were;
\* for every target the state is newState after the call and the call returns
\* newState; with newState equal to the current state nothing changes
C11_ForwardStateNoCleanup ==
  (op.name = "state" /\ Len(op.args) >= 1) =>
    /\ _state = op.args[1]
    /\ op.ret = <<op.args[1]>>
    /\ op.error = NoError
    /\ op.args[1] >= pre._state =>
         /\ RemoveCalls(op) = 0
         /\ bbox = pre.bbox /\ outputData = pre.outputData
         /\ inputData = pre.inputData
    /\ op.args[1] = pre._state => Item = pre

\* state(TYPESET) called on a typeset item with filled containers: all kept
C11_Witness ==
  /\ StateCalled(TYPESET, TYPESET)
  /\ op.ret = <<TYPESET>>
  /\ bbox = SomeBBox /\ outputData = SomeOutputData /\ inputData = SomeInputData

\* the value returned by the jax in the call o: the event after the call of
\* the jax, which is the first event
ReturnedIn(o) == o.events[2].ev

\* C12: when typeset runs the output jax (state < TYPESET) it calls exactly
\* one entry point, escaped if and only if display is null and typeset when
\* display is true or false, and stores what the entry point returns in
\* typesetRoot
C12_EntryPointByDisplay ==
  (op.name = "typeset" /\ pre._state < TYPESET) =>
    /\ RendererCalls(op) = 1
    /\ op.events[1].ev = (IF display = Null THEN "outputJax.escaped"
                                            ELSE "outputJax.typeset")
    /\ display = pre.display
    /\ op.error = NoError => ReturnedIn(op) \in Handles /\ typesetRoot = ReturnedIn(op)

\* typeset of an inline item (display false) called the typeset entry point
\* and stored the handle it returned
C12_Witness ==
  /\ op.name = "typeset" /\ pre._state = COMPILED
  /\ display = "false"
  /\ op.events[1].ev = "outputJax.typeset"
  /\ op.error = NoError /\ typesetRoot = ReturnedIn(op) /\ typesetRoot \in Handles

\* C13: a new item is UNPROCESSED with root and typesetRoot null and bbox,
\* inputData and outputData empty; afterwards root is null until a compile
\* has succeeded and typesetRoot is null until a typeset has succeeded, and
\* no call other than compile (typeset) changes root (typesetRoot)
C13_NullUntilProduced ==
  /\ op.name = "new" =>
       /\ _state = UNPROCESSED /\ root = Null /\ typesetRoot = Null
       /\ bbox = EmptyObj /\ inputData = EmptyObj /\ outputData = EmptyObj
  /\ ~hist.everCompiled => root = Null
  /\ ~hist.everTypeset => typesetRoot = Null
  /\ op.name # "compile" => root = pre.root
  /\ op.name # "typeset" => typesetRoot = pre.typesetRoot

\* an item compiled, never typeset and marked INSERTED by state(): root is
\* set and typesetRoot still null
C13_Witness ==
  /\ hist.everCompiled /\ ~hist.everTypeset
  /\ _state = INSERTED
  /\ root \in Trees /\ typesetRoot = Null

\* C14: protoItem returns, for every input and without validating it, a
\* record with start = {n: startOffset}, end = {n: endOffset}, n = the index,
\* and open, math and close as given; display is null when the argument is
\* omitted and the argument otherwise
C14_ProtoItemFields ==
  op.name = "protoItem" =>
    LET a == op.args
        p == op.ret[1]
    IN  /\ op.error = NoError
        /\ p.start = [n |-> a[5]] /\ p.end = [n |-> a[6]]
        /\ p.n = a[4]
        /\ p.open = a[1] /\ p.math = a[2] /\ p.close = a[3]
        /\ p.display = (IF Len(a) = 6 THEN Null ELSE a[7])

\* protoItem called without display and with a start after the end
C14_Witness ==
  /\ op.name = "protoItem" /\ Len(op.args) = 6
  /\ op.args[5] > op.args[6] /\ op.args[4] # op.args[5]
  /\ op.ret[1].start.n > op.ret[1].end.n
  /\ op.ret[1].display = Null

\* the names of the calls and steps in events, in order
EventNames(events) == [i \in 1..Len(events) |-> events[i].ev]

\* what the claim expects state(s2) called in state s1 to do, in order
ExpectedStateEvents(s1, s2) ==
  (IF s2 < INSERTED /\ s1 >= INSERTED THEN <<"removeFromDocument">> ELSE <<>>)
  \o (IF s2 < TYPESET /\ s1 >= TYPESET THEN <<"clearOutput">> ELSE <<>>)
  \o (IF s2 < COMPILED /\ s1 >= COMPILED THEN <<"clearInput">> ELSE <<>>)
  \o <<"setState">>

\* C15: in one call state(newState, restore) each of the three guards is
\* tested against the state held before the call, in the order INSERTED,
\* TYPESET, COMPILED: removeFromDocument runs before bbox and outputData are
\* emptied, they before inputData is emptied, and the state is written last;
\* one call from INSERTED to UNPROCESSED does all three
C15_GuardsInOrder ==
  (op.name = "state" /\ Len(op.args) >= 1) =>
    /\ EventNames(op.events) = ExpectedStateEvents(pre._state, op.args[1])
    /\ \A i \in 1..Len(op.events) : op.events[i].it._state = pre._state
    /\ \A i \in 1..Len(op.events) :
         /\ op.events[i].ev = "removeFromDocument" =>
              /\ op.events[i].it.bbox = pre.bbox
              /\ op.events[i].it.outputData = pre.outputData
              /\ op.events[i].it.inputData = pre.inputData
         /\ op.events[i].ev = "clearOutput" =>
              op.events[i].it.inputData = pre.inputData
    /\ StateCalled(INSERTED, UNPROCESSED) =>
         EventNames(op.events) =
           <<"removeFromDocument", "clearOutput", "clearInput", "setState">>

\* state(UNPROCESSED) on an inserted item with filled containers did the
\* three cleanups and then wrote the state
C15_Witness ==
  /\ StateCalled(INSERTED, UNPROCESSED)
  /\ Len(op.events) = 4
  /\ op.events[1].ev = "removeFromDocument" /\ op.events[1].it.bbox = SomeBBox
  /\ op.events[3].ev = "clearInput" /\ op.events[3].it.bbox = EmptyObj
  /\ op.events[3].it.inputData = SomeInputData
  /\ op.events[4].it._state = INSERTED
  /\ _state = UNPROCESSED

\* C16: a method calls removeFromDocument exactly when it is state(newState,
\* restore) called in a state >= INSERTED with newState < INSERTED: once, with
\* the caller's restore (false when omitted), while the state and bbox and
\* outputData are still as before the call; compile, typeset, setMetrics,
\* state() and every other state(newState) never call it
C16_RemoveCalledOnLeavingInserted ==
  LET leaving == /\ op.name = "state" /\ Len(op.args) >= 1
                 /\ pre._state >= INSERTED /\ op.args[1] < INSERTED
  IN  /\ RemoveCalls(op) = (IF leaving THEN 1 ELSE 0)
      /\ leaving =>
           /\ op.events[1].ev = "removeFromDocument"
           /\ op.events[1].restore = (IF Len(op.args) >= 2 THEN op.args[2] ELSE FALSE)
           /\ op.events[1].it = pre

\* state(COMPILED, true) on an inserted item: removeFromDocument(true) was
\* called before bbox was emptied
C16_Witness ==
  /\ StateCalled(INSERTED, COMPILED) /\ op.args = <<COMPILED, TRUE>>
  /\ RemoveCalls(op) = 1
  /\ op.events[1].restore = TRUE
  /\ op.events[1].it._state = INSERTED /\ op.events[1].it.bbox = SomeBBox
  /\ bbox = EmptyObj

\* C17: typeset called in a state below COMPILED does not call the input
\* jax: it calls the output jax once, leaves root as it was and, when the
\* output jax returns, stores the handle and writes TYPESET in one step; a
\* compile called afterwards, the item being TYPESET, does nothing
C17_TypesetSkipsCompile ==
  /\ (op.name = "typeset" /\ pre._state < COMPILED) =>
       /\ ParserCalls(op) = 0 /\ RendererCalls(op) = 1
       /\ root = pre.root
       /\ op.error = NoError =>
            /\ typesetRoot = ReturnedIn(op)
            /\ _state = TYPESET
            /\ CountEvents(op.events, {"setState"}) = 1
  /\ (op.name = "compile" /\ pre._state >= TYPESET) =>
       op.events = <<>> /\ op.error = NoError /\ Item = pre

\* compile called on an item that was typeset without ever being compiled:
\* nothing happened, root is still null
C17_Witness ==
  /\ op.name = "compile" /\ op.events = <<>>
  /\ hist.everTypeset /\ ~hist.everCompiled
  /\ pre._state = TYPESET /\ _state = TYPESET
  /\ root = Null /\ typesetRoot \in Handles

\* C18: the guards of compile and typeset test the state only: in a state
\* below COMPILED compile calls the input jax once, whatever root holds, and
\* stores the tree returned over it; in a state below TYPESET typeset calls
\* the output jax once, whatever typesetRoot holds, and stores the handle
\* returned over it
C18_RerunAfterRollback ==
  /\ (op.name = "compile" /\ pre._state < COMPILED) =>
       /\ ParserCalls(op) = 1
       /\ op.error = NoError => root = ReturnedIn(op) /\ _state = COMPILED
  /\ (op.name = "typeset" /\ pre._state < TYPESET) =>
       /\ RendererCalls(op) = 1
       /\ op.error = NoError => typesetRoot = ReturnedIn(op) /\ _state = TYPESET

\* compile on an item rolled back to UNPROCESSED replaced the tree it still had
C18_Witness ==
  /\ op.name = "compile" /\ ParserCalls(op) = 1
  /\ pre._state = UNPROCESSED /\ pre.root = "mml1"
  /\ root = "mml2" /\ _state = COMPILED

\* C19: with state() never called with a target above the state, every state
\* >= TYPESET has a typesetRoot that is not null
C19_TypesetHasRoot == _state >= TYPESET => typesetRoot # Null

\* an item typeset again after a rollback to COMPILED
C19_Witness ==
  /\ op.name = "typeset" /\ RendererCalls(op) = 1
  /\ pre._state = COMPILED /\ pre.typesetRoot \in Handles
  /\ _state = TYPESET /\ typesetRoot \in Handles

\* C20: only setMetrics changes metrics (compile, typeset and state(...) for
\* every target leave it as it was), and setMetrics changes metrics only, to
\* the five values given
C20_MetricsOnlyBySetMetrics ==
  /\ op.name # "setMetrics" => metrics = pre.metrics
  /\ op.name = "setMetrics" =>
       Item = [pre EXCEPT !.metrics =
                 [em |-> op.args[1], ex |-> op.args[2],
                  containerWidth |-> op.args[3], lineWidth |-> op.args[4],
                  scale |-> op.args[5]]]

\* a rollback from INSERTED to UNPROCESSED of an item whose metrics were set
C20_Witness ==
  /\ StateCalled(INSERTED, UNPROCESSED)
  /\ pre.bbox = SomeBBox /\ bbox = EmptyObj
  /\ metrics # EmptyObj /\ metrics = pre.metrics

TypeOK ==
  /\ _state \in StateValues
  /\ root \in Trees \cup {Null}
  /\ typesetRoot \in Handles \cup {Null}
  /\ bbox \in {EmptyObj, SomeBBox}
  /\ inputData \in {EmptyObj, SomeInputData}
  /\ outputData \in {EmptyObj, SomeOutputData}
  /\ display \in DisplayValues
====
